---- MODULE Spec2Model ----
(***************************************************************************)
(* Model of bookdealer_scraper.py: the field extractor (parse_book_data),  *)
(* the incremental CSV writer (write_csv) and the pagination driver (main).*)
(*                                                                         *)
(* Text is a sequence of one-character strings, so that slicing, regular   *)
(* expression search and int() are computed as the code computes them.     *)
(* The element "EUR" stands for the euro sign.                             *)
(* Python values are tagged: None, PyInt(n), PyStr(s).  A dict is a sequence   *)
(* of [k, v] entries in insertion order.                                   *)
(***************************************************************************)
EXTENDS Integers, Sequences, FiniteSets, TLC

VARIABLES pc, run, requests, book_rec_soup, last_page, page, fetched,
          book_headers, idx, books_in_page, book_soup, book_data,
          file, calls, error

vars == <<pc, run, requests, book_rec_soup, last_page, page, fetched,
          book_headers, idx, books_in_page, book_soup, book_data,
          file, calls, error>>

-----------------------------------------------------------------------------
(* Bounds of the model.                                                    *)

\* total number of HTTP requests the site answers in one behaviour
MaxRequests == 9
\* largest page number offered by a catalog root document
MaxPag == 2
\* largest number of book headers on one listing page
MaxBooks == 2
\* largest number of anchors in an endorsement block
MaxLinks == 2

-----------------------------------------------------------------------------
(* Python values.                                                          *)

None == [none |-> TRUE]
PyInt(n) == [int |-> n]
PyStr(s) == [str |-> s]
IsNone(v) == "none" \in DOMAIN v
IsInt(v) == "int" \in DOMAIN v
IsStr(v) == "str" \in DOMAIN v

\* the result of a find() that matched nothing
NoNode == [nonode |-> TRUE]
IsNoNode(n) == "nonode" \in DOMAIN n

\* no exception
NoError == "none"

-----------------------------------------------------------------------------
(* Text helpers.                                                           *)

DigitChars == <<"0", "1", "2", "3", "4", "5", "6", "7", "8", "9">>
IsDigit(c) == \E i \in 1..10 : DigitChars[i] = c
DigitVal(c) == (CHOOSE i \in 1..10 : DigitChars[i] = c) - 1

\* s[n:]
SliceFrom(s, n) == SubSeq(s, n + 1, Len(s))

\* sub in s
Contains(s, sub) ==
    \E i \in 1..(Len(s) - Len(sub) + 1) : SubSeq(s, i, i + Len(sub) - 1) = sub

RECURSIVE DecimalValue(_)
DecimalValue(s) ==
    IF s = <<>> THEN 0
    ELSE 10 * DecimalValue(SubSeq(s, 1, Len(s) - 1)) + DigitVal(s[Len(s)])

\* int(s): a ValueError unless s is a non-empty run of decimal digits
py_int(s) ==
    IF s # <<>> /\ \A i \in 1..Len(s) : IsDigit(s[i])
    THEN [raised |-> NoError, value |-> DecimalValue(s)]
    ELSE [raised |-> "ValueError", value |-> 0]

RECURSIVE py_str_int(_)
\* str(n) for n >= 0
py_str_int(n) ==
    IF n < 10 THEN <<DigitChars[n + 1]>>
    ELSE py_str_int(n \div 10) \o <<DigitChars[(n % 10) + 1]>>

RECURSIVE py_join(_, _)
\* sep.join(parts)
py_join(sep, parts) ==
    IF parts = <<>> THEN <<>>
    ELSE IF Len(parts) = 1 THEN parts[1]
    ELSE parts[1] \o sep \o py_join(sep, Tail(parts))

-----------------------------------------------------------------------------
(* Documents returned by get_soup.                                         *)
(*                                                                         *)
(* A book page is [info, consigliato, article]:                            *)
(*   info        NoNode, or the product-details-info div                   *)
(*               [title, price, ul]: title and price are NoNode or the     *)
(*               node's .string (None or PyStr), ul is NoNode or           *)
(*               [text |-> lines], the list's text as a sequence of lines  *)
(*               [label, value] each standing for "label: value\n";        *)
(*   consigliato NoNode, or [anchors |-> hrefs], the hrefs of the anchors  *)
(*               of the w-consigliato-da div, in document order;           *)
(*   article     NoNode, or [text |-> chars] of the review-article.        *)
(* A listing page is [headers |-> s], s the sequence of its product-header *)
(* divs, each [href |-> chars] of its book anchor or NoNode.  The catalog  *)
(* root is [next_btn |-> s], s the hrefs of its next-btn anchors.          *)

LIBRERIA == <<"/", "l", "i", "b", "r", "e", "r", "i", "a", "/">>
LIBRO == <<"/", "l", "i", "b", "r", "o", "/">>
PAG == <<"?", "p", "a", "g", "=">>

\* the keys of additional_info_mapping, in insertion order
additional_info_mapping ==
    << <<"Autore", "author">>, <<"Editore", "publisher">>, <<"Isbn", "isbn">>,
       <<"Categoria", "category">>, <<"Traduttore", "translator">>,
       <<"Numero pagine", "pages">>, <<"Data di Uscita", "date">>,
       <<"Collana", "series">> >>

-----------------------------------------------------------------------------
(* parse_book_data.                                                        *)

\* re.search(r'(\d+),\d\d EUR', s) tried at position i: \d+ is greedy and
\* must end where the comma is, so it is the whole digit run from i
PriceDigitsEnd(s, i) ==
    CHOOSE j \in i..Len(s) :
        /\ \A k \in i..j : IsDigit(s[k])
        /\ (j = Len(s) \/ ~IsDigit(s[j + 1]))

PriceMatchAt(s, i) ==
    /\ IsDigit(s[i])
    /\ LET j == PriceDigitsEnd(s, i)
       IN  /\ j + 5 <= Len(s)
           /\ s[j + 1] = ","
           /\ IsDigit(s[j + 2])
           /\ IsDigit(s[j + 3])
           /\ s[j + 4] = " "
           /\ s[j + 5] = "EUR"

\* the price entry: int of group 1 of the leftmost match, else (no match, or
\* a price_tag that is None and makes re.search raise) the price_tag itself
format_price(price_tag) ==
    IF IsStr(price_tag) /\ \E i \in 1..Len(price_tag.str) : PriceMatchAt(price_tag.str, i)
    THEN LET s == price_tag.str
             i == CHOOSE a \in 1..Len(s) :
                      /\ PriceMatchAt(s, a)
                      /\ \A b \in 1..(a - 1) : ~PriceMatchAt(s, b)
             n == py_int(SubSeq(s, i, PriceDigitsEnd(s, i)))
         IN  IF n.raised = NoError THEN PyInt(n.value) ELSE price_tag
    ELSE price_tag

\* re.search(fr'{site_label}: (.+)\n', add_info).group(1), None without match
label_value(site_label, add_info) ==
    IF \E i \in 1..Len(add_info) :
           add_info[i].label = site_label /\ add_info[i].value # <<>>
    THEN LET i == CHOOSE a \in 1..Len(add_info) :
                      /\ add_info[a].label = site_label /\ add_info[a].value # <<>>
                      /\ \A b \in 1..(a - 1) :
                            ~(add_info[b].label = site_label /\ add_info[b].value # <<>>)
         IN  PyStr(add_info[i].value)
    ELSE None

additional_info(add_info) ==
    [i \in 1..Len(additional_info_mapping) |->
        [k |-> additional_info_mapping[i][2],
         v |-> label_value(additional_info_mapping[i][1], add_info)]]

\* .select(r'a[href*=\/libreria\/]') on the endorsement block; None when the
\* block is missing (the AttributeError is caught)
RECURSIVE SelectLibreria(_)
SelectLibreria(anchors) ==
    IF anchors = <<>> THEN <<>>
    ELSE (IF Contains(Head(anchors), LIBRERIA) THEN <<Head(anchors)>> ELSE <<>>)
         \o SelectLibreria(Tail(anchors))

\* a plausible slip: 'if bookstores is not None' in place of 'if bookstores'
endorsements_not_none(soup) ==
    IF IsNoNode(soup.consigliato)
    THEN << [k |-> "recommendations", v |-> None], [k |-> "bookstores", v |-> None] >>
    ELSE LET bookstores == SelectLibreria(soup.consigliato.anchors)
             ids == [i \in 1..Len(bookstores) |-> SliceFrom(bookstores[i], Len(LIBRERIA))]
         IN  << [k |-> "recommendations", v |-> PyInt(Len(bookstores))],
                [k |-> "bookstores", v |-> PyStr(py_join(<<",", " ">>, ids))] >>

\* the recommendations and bookstores entries
endorsements(soup) ==
    LET bookstores == IF IsNoNode(soup.consigliato) THEN <<>>
                      ELSE SelectLibreria(soup.consigliato.anchors)
        ids == [i \in 1..Len(bookstores) |-> SliceFrom(bookstores[i], Len(LIBRERIA))]
    IN  IF bookstores # <<>>
        THEN << [k |-> "recommendations", v |-> PyInt(Len(bookstores))],
                [k |-> "bookstores", v |-> PyStr(py_join(<<",", " ">>, ids))] >>
        ELSE << [k |-> "recommendations", v |-> None],
                [k |-> "bookstores", v |-> None] >>

\* the synopsis entry
synopsis(soup) ==
    << [k |-> "synopsis",
        v |-> IF IsNoNode(soup.article) THEN None ELSE PyStr(soup.article.text)] >>

\* parse_book_data on the fetched page: the exception it raises, or the dict
parse_book_data(soup) ==
    LET book_info == soup.info
    IN  IF IsNoNode(book_info) \/ IsNoNode(book_info.title)
           \/ IsNoNode(book_info.price) \/ IsNoNode(book_info.ul)
        THEN [raised |-> "AttributeError", book_data |-> <<>>]
        ELSE [raised |-> NoError,
              book_data |->
                  << [k |-> "title", v |-> book_info.title],
                     [k |-> "price", v |-> format_price(book_info.price)] >>
                  \o additional_info(book_info.ul.text)
                  \o endorsements(soup)
                  \o synopsis(soup)]

\* dict lookup d[key] and d.keys()
Get(d, key) == d[CHOOSE i \in 1..Len(d) : d[i].k = key].v
Keys(d) == [i \in 1..Len(d) |-> d[i].k]

-----------------------------------------------------------------------------
(* write_csv.  The destination is [exists, rows]; a row is a sequence of   *)
(* cells, [key |-> name] in the header row and [text |-> chars] in a data  *)
(* row.                                                                    *)

\* what csv writes for a value: '' for None, str(n) for an int
csv_cell(v) ==
    IF IsNone(v) THEN <<>>
    ELSE IF IsInt(v) THEN py_str_int(v.int)
    ELSE v.str

\* DictWriter.writeheader()
HeaderRow(fieldnames) == [i \in 1..Len(fieldnames) |-> [key |-> fieldnames[i]]]

\* DictWriter.writerow(d)
DataRow(fieldnames, d) ==
    [i \in 1..Len(fieldnames) |-> [text |-> csv_cell(Get(d, fieldnames[i]))]]

\* DictWriter.writerows(data)
DataRows(fieldnames, data) == [i \in 1..Len(data) |-> DataRow(fieldnames, data[i])]

\* a plausible slip: the column names written on every call
write_csv_always_header(data, f) ==
    IF data = <<>>
    THEN [raised |-> "IndexError", file |-> [exists |-> TRUE, rows |-> f.rows]]
    ELSE [raised |-> NoError,
          file |-> [exists |-> TRUE,
                    rows |-> f.rows \o <<HeaderRow(Keys(data[1]))>>
                             \o DataRows(Keys(data[1]), data)]]

\* a different check: the column names written whenever the file has no rows
write_csv_header_if_empty(data, f) ==
    IF data = <<>>
    THEN [raised |-> "IndexError", file |-> [exists |-> TRUE, rows |-> f.rows]]
    ELSE [raised |-> NoError,
          file |-> [exists |-> TRUE,
                    rows |-> f.rows
                             \o (IF f.rows = <<>> THEN <<HeaderRow(Keys(data[1]))>> ELSE <<>>)
                             \o DataRows(Keys(data[1]), data)]]

\* write_csv(data, filename) on destination f: the exception it raises and
\* the destination it leaves.  open(filename, 'a+') creates the file before
\* data[0] is evaluated.
write_csv(data, f) ==
    LET write_column_names == ~f.exists
        opened == [exists |-> TRUE, rows |-> f.rows]
    IN  IF data = <<>>
        THEN [raised |-> "IndexError", file |-> opened]
        ELSE LET fieldnames == Keys(data[1])
                 header == IF write_column_names THEN <<HeaderRow(fieldnames)>> ELSE <<>>
             IN  [raised |-> NoError,
                  file |-> [exists |-> TRUE,
                            rows |-> opened.rows \o header \o DataRows(fieldnames, data)]]

-----------------------------------------------------------------------------
(* The pages the site can answer with.                                     *)

\* get_soup has not been called
NotFetched == [notfetched |-> TRUE]
\* requests.get raises
Unreachable == [unreachable |-> TRUE]

Text(c) == <<c>>

BoundedSeq(S, n) == UNION {[1..k -> S] : k \in 0..n}

HrefLibreriaA == LIBRERIA \o <<"a">>
HrefLibreriaB == LIBRERIA \o <<"b">>
HrefLibroX == LIBRO \o <<"x">>

PriceTexts ==
    { <<"1", "2", ",", "5", "0", " ", "EUR">>,
      <<"g", "r", "a", "t", "i", "s">> }

InfoLists ==
    { <<>>,
      << [label |-> "Autore", value |-> Text("Y")] >>,
      << [label |-> "Editore", value |-> Text("X")],
         [label |-> "Autore", value |-> Text("Y")] >> }

BookInfos ==
    [title : {NoNode, PyStr(Text("T"))},
     price : {NoNode, None} \cup {PyStr(t) : t \in PriceTexts},
     ul : {NoNode} \cup {[text |-> l] : l \in InfoLists}]

\* every book page of the extractor's specification
AllBookDocs ==
    [info : {NoNode} \cup BookInfos,
     consigliato : {NoNode} \cup {[anchors |-> a] :
                       a \in BoundedSeq({HrefLibreriaA, HrefLibreriaB, HrefLibroX}, MaxLinks)},
     article : {NoNode, [text |-> Text("S")]}]

BookFull ==
    [info |-> [title |-> PyStr(Text("A")),
               price |-> PyStr(<<"1", "2", ",", "5", "0", " ", "EUR">>),
               ul |-> [text |-> << [label |-> "Autore", value |-> Text("Y")] >>]],
     consigliato |-> [anchors |-> <<HrefLibreriaA, HrefLibreriaB>>],
     article |-> [text |-> Text("S")]]

BookNoBlock ==
    [info |-> [title |-> PyStr(Text("B")),
               price |-> PyStr(<<"g", "r", "a", "t", "i", "s">>),
               ul |-> [text |-> <<>>]],
     consigliato |-> NoNode,
     article |-> NoNode]

BookNoTitle == [BookFull EXCEPT !.info.title = NoNode]
BookNoContainer == [BookFull EXCEPT !.info = NoNode]
BookNoPrice == [BookFull EXCEPT !.info.price = NoNode]

\* the book pages of the driver's specification
BookDocs == {BookFull, BookNoBlock, BookNoTitle, BookNoContainer, BookNoPrice}

\* a product-header: the href of its book anchor, or NoNode
ProductHeaders == {[href |-> HrefLibroX], NoNode}
ListingDocs == {[headers |-> h] : h \in BoundedSeq(ProductHeaders, MaxBooks)}

\* the href of a next-btn anchor
NextHrefs ==
    {PAG \o py_str_int(n) : n \in 0..MaxPag}
    \cup {<<"/", "c">> \o PAG \o py_str_int(n) : n \in 1..MaxPag}
    \cup {PAG, PAG \o <<"x">>}

\* the first next-btn is the link to page 2, the second the link to the last
RootDocs ==
    {[next_btn |-> b] :
        b \in {<<>>, <<PAG \o <<"2">>>>} \cup {<<PAG \o <<"2">>, h>> : h \in NextHrefs}}

-----------------------------------------------------------------------------
(* main.                                                                   *)

\* a plausible slip: a single page assumed when the bound cannot be read
resolve_last_page_default(soup) ==
    IF Len(soup.next_btn) < 2
    THEN [raised |-> NoError, value |-> 1]
    ELSE LET n == py_int(SliceFrom(soup.next_btn[2], 5))
         IN  IF n.raised = NoError THEN n ELSE [raised |-> NoError, value |-> 1]

\* last_page: find_all(...)[1] raises IndexError on fewer than two next-btn
\* anchors, int(href[5:]) raises ValueError
resolve_last_page(soup) ==
    IF Len(soup.next_btn) < 2
    THEN [raised |-> "IndexError", value |-> 0]
    ELSE py_int(SliceFrom(soup.next_btn[2], 5))

NoFile == [exists |-> FALSE, rows |-> <<>>]

Init ==
    /\ pc = "NotStarted"
    /\ run = 1
    /\ requests = 0
    /\ book_rec_soup = NotFetched
    /\ last_page = 0
    /\ page = 0
    /\ fetched = <<>>
    /\ book_headers = <<>>
    /\ idx = 0
    /\ books_in_page = <<>>
    /\ book_soup = NotFetched
    /\ book_data = <<>>
    /\ file = NoFile
    /\ calls = <<>>
    /\ error = NoError

\* the run ends with an uncaught exception
Abort(exception) ==
    /\ pc' = "Aborted"
    /\ error' = exception

\* lines 158-165: fetch the catalog root and resolve the page bound
ResolveBound ==
    /\ pc = "NotStarted"
    /\ requests < MaxRequests
    /\ requests' = requests + 1
    /\ \E soup \in RootDocs \cup {Unreachable} :
          IF soup = Unreachable
          THEN /\ Abort("ConnectionError")
               /\ UNCHANGED <<book_rec_soup, last_page, page>>
          ELSE /\ book_rec_soup' = soup
               /\ LET r == resolve_last_page(soup)
                  IN  IF r.raised # NoError
                      THEN /\ Abort(r.raised)
                           /\ UNCHANGED <<last_page, page>>
                      ELSE /\ last_page' = r.value
                           /\ page' = 1
                           /\ pc' = "PageLoop"
                           /\ UNCHANGED error
    /\ UNCHANGED <<run, fetched, book_headers, idx, books_in_page, book_soup,
                   book_data, file, calls>>

\* lines 166-170: the next listing page
FetchPage ==
    /\ pc = "PageLoop"
    /\ page <= last_page
    /\ requests < MaxRequests
    /\ requests' = requests + 1
    /\ fetched' = Append(fetched, page)
    /\ books_in_page' = <<>>
    /\ \E soup \in ListingDocs \cup {Unreachable} :
          IF soup = Unreachable
          THEN /\ Abort("ConnectionError")
               /\ UNCHANGED <<book_headers, idx>>
          ELSE /\ book_headers' = soup.headers
               /\ idx' = 1
               /\ pc' = "BookLoop"
               /\ UNCHANGED error
    /\ UNCHANGED <<run, book_rec_soup, last_page, page, book_soup, book_data,
                   file, calls>>

\* lines 172-177: the next book header of the page
ParseBook ==
    /\ pc = "BookLoop"
    /\ idx <= Len(book_headers)
    /\ IF IsNoNode(book_headers[idx])
       THEN \* select_one(...) is None: None['href']
            /\ Abort("TypeError")
            /\ UNCHANGED <<requests, idx, books_in_page, book_soup, book_data>>
       ELSE /\ requests < MaxRequests
            /\ requests' = requests + 1
            /\ \E soup \in BookDocs \cup {Unreachable} :
                  IF soup = Unreachable
                  THEN /\ Abort("ConnectionError")
                       /\ UNCHANGED <<idx, books_in_page, book_soup, book_data>>
                  ELSE /\ book_soup' = soup
                       /\ LET r == parse_book_data(soup)
                          IN  IF r.raised # NoError
                              THEN /\ Abort(r.raised)
                                   /\ UNCHANGED <<idx, books_in_page, book_data>>
                              ELSE /\ book_data' = r.book_data
                                   /\ books_in_page' = Append(books_in_page, r.book_data)
                                   /\ idx' = idx + 1
                                   /\ UNCHANGED <<pc, error>>
    /\ UNCHANGED <<run, book_rec_soup, last_page, page, fetched, book_headers,
                   file, calls>>

\* lines 178-179: every header of the page was parsed, write the batch
WritePage ==
    /\ pc = "BookLoop"
    /\ idx > Len(book_headers)
    /\ LET r == write_csv(books_in_page, file)
       IN  /\ file' = r.file
           /\ calls' = Append(calls, [run |-> run, page |-> page, data |-> books_in_page])
           /\ IF r.raised # NoError
              THEN /\ Abort(r.raised)
                   /\ UNCHANGED page
              ELSE /\ page' = page + 1
                   /\ pc' = "PageLoop"
                   /\ UNCHANGED error
    /\ UNCHANGED <<run, requests, book_rec_soup, last_page, fetched, book_headers,
                   idx, books_in_page, book_soup, book_data>>

\* line 180: range(1, last_page + 1) is exhausted
Finish ==
    /\ pc = "PageLoop"
    /\ page > last_page
    /\ pc' = "Done"
    /\ UNCHANGED <<run, requests, book_rec_soup, last_page, page, fetched,
                   book_headers, idx, books_in_page, book_soup, book_data,
                   file, calls, error>>

\* lines 183-184: the script is run again with the same filename
Rerun ==
    /\ pc \in {"Done", "Aborted"}
    /\ requests < MaxRequests
    /\ pc' = "NotStarted"
    /\ run' = run + 1
    /\ book_rec_soup' = NotFetched
    /\ last_page' = 0
    /\ page' = 0
    /\ fetched' = <<>>
    /\ book_headers' = <<>>
    /\ idx' = 0
    /\ books_in_page' = <<>>
    /\ book_soup' = NotFetched
    /\ book_data' = <<>>
    /\ error' = NoError
    /\ UNCHANGED <<requests, file, calls>>

Next ==
    \/ ResolveBound
    \/ FetchPage
    \/ ParseBook
    \/ WritePage
    \/ Finish
    \/ Rerun

Spec == Init /\ [][Next]_vars

-----------------------------------------------------------------------------
(* The extractor alone, on every book page of AllBookDocs.                 *)

InitExtract ==
    /\ pc = "Extract"
    /\ book_soup \in AllBookDocs
    /\ run = 1
    /\ requests = 0
    /\ book_rec_soup = NotFetched
    /\ last_page = 0
    /\ page = 0
    /\ fetched = <<>>
    /\ book_headers = <<>>
    /\ idx = 0
    /\ books_in_page = <<>>
    /\ book_data = <<>>
    /\ file = NoFile
    /\ calls = <<>>
    /\ error = NoError

\* line 175: book_data = parse_book_data(book_url)
Extract ==
    /\ pc = "Extract"
    /\ LET r == parse_book_data(book_soup)
       IN  /\ book_data' = r.book_data
           /\ error' = r.raised
    /\ pc' = "Extracted"
    /\ UNCHANGED <<run, requests, book_rec_soup, last_page, page, fetched,
                   book_headers, idx, books_in_page, book_soup, file, calls>>

NextExtract == Extract

SpecExtract == InitExtract /\ [][NextExtract]_vars

-----------------------------------------------------------------------------
(* Properties.                                                             *)

\* the column header of the destination
ColumnNames ==
    <<"title", "price", "author", "publisher", "isbn", "category", "translator",
      "pages", "date", "series", "recommendations", "bookstores", "synopsis">>

RECURSIVE BatchRows(_)
\* the data rows of the batches handed to write_csv, in call order
BatchRows(cs) ==
    IF cs = <<>> THEN <<>>
    ELSE [i \in 1..Len(cs[1].data) |->
             [j \in 1..Len(ColumnNames) |->
                 [text |-> csv_cell(Get(cs[1].data[i], ColumnNames[j]))]]]
         \o BatchRows(Tail(cs))

\* write_csv is about to be called
AtWrite == pc = "BookLoop" /\ idx > Len(book_headers)

\* C1: after one or more write_csv calls with non-empty batches against a
\* destination that did not exist at first, in one run or over several, the
\* destination holds exactly one header row, first, followed by the rows of
\* all the batches in call order.
C1_OneHeaderThenBatches ==
    (calls # <<>> /\ \A i \in 1..Len(calls) : calls[i].data # <<>>)
    => /\ file.exists
       /\ file.rows = <<HeaderRow(ColumnNames)>> \o BatchRows(calls)
       /\ \A i \in 2..Len(file.rows) : file.rows[i] # HeaderRow(ColumnNames)

\* three non-empty batches, two in one run and one in a later run, that differ
C1_Witness ==
    /\ Len(calls) = 3
    /\ \A i \in 1..3 : calls[i].data # <<>>
    /\ calls[1].run = calls[2].run
    /\ calls[2].run # calls[3].run
    /\ calls[1].data # calls[2].data
    /\ Len(calls[3].data) = 2

\* a book page that fails extraction as the claims describe it: no details
\* container, or no title node
ExtractionFails(soup) == IsNoNode(soup.info) \/ IsNoNode(soup.info.title)

\* C2 (as claimed): a book whose details container or title node is missing
\* is left out of the batch and the run goes on; it never ends the run.
C2_AsClaimed ==
    ~(/\ pc = "Aborted"
      /\ error = "AttributeError"
      /\ book_soup # NotFetched
      /\ ExtractionFails(book_soup))

\* C3 (as claimed): with an empty batch the driver leaves the destination as it
\* is, neither created nor changed, and goes on to the next page number.
C3_AsClaimed ==
    [][(AtWrite /\ books_in_page = <<>>)
       => (file' = file /\ pc' = "PageLoop" /\ page' = page + 1)]_vars

\* href ends in '?pag=' followed by the decimal digits of n
EndsInPag(href, n) ==
    LET d == py_str_int(n)
        k == Len(PAG) + Len(d)
    IN  /\ Len(href) >= k
        /\ SubSeq(href, Len(href) - k + 1, Len(href)) = PAG \o d

\* C4 (as claimed): when the second next-control target ends in '?pag=N',
\* whatever precedes the marker, the bound is N: the pages fetched are 1, 2, ...
\* in increasing order, each once, never beyond N, and all of 1..N once Done.
C4_AsClaimed ==
    \A n \in 1..MaxPag :
        (/\ book_rec_soup # NotFetched
         /\ Len(book_rec_soup.next_btn) >= 2
         /\ EndsInPag(book_rec_soup.next_btn[2], n))
        => /\ last_page = n
           /\ fetched = [i \in 1..Len(fetched) |-> i]
           /\ Len(fetched) <= n
           /\ (pc = "Done" => Len(fetched) = n)

\* the catalog root has fewer than two next-controls, or what follows the
\* first five characters of the second one's target is not a decimal number
Unresolvable(soup) ==
    \/ Len(soup.next_btn) < 2
    \/ LET href == soup.next_btn[2]
       IN  \/ Len(href) <= 5
           \/ \E i \in 6..Len(href) :
                 href[i] \notin {"0", "1", "2", "3", "4", "5", "6", "7", "8", "9"}

\* C5: with fewer than two next-controls, or an unparseable numeric suffix, the
\* run aborts while resolving the bound: no listing page is fetched, no book is
\* extracted, write_csv is not called, a destination that did not exist is not
\* created.
C5_AbortsBeforeAnyPage ==
    (book_rec_soup # NotFetched /\ Unresolvable(book_rec_soup))
    => /\ pc = "Aborted"
       /\ error \in {"IndexError", "ValueError"}
       /\ fetched = <<>>
       /\ book_headers = <<>>
       /\ book_soup = NotFetched
       /\ books_in_page = <<>>
       /\ \A i \in 1..Len(calls) : calls[i].run # run
       /\ (run = 1 => file = NoFile)

\* a later run aborts on an unparseable suffix, the destination of the earlier
\* run in place
C5_Witness ==
    /\ pc = "Aborted"
    /\ error = "ValueError"
    /\ book_rec_soup # NotFetched
    /\ Unresolvable(book_rec_soup)
    /\ run = 2
    /\ Len(file.rows) > 1

\* C6 (as claimed): whenever the destination holds anything, it holds the
\* header followed by the complete batches written so far, the pages of each
\* run a prefix 1..k in increasing order, each batch holding one row for every
\* book header of its page.
C6_AsClaimed ==
    file.rows # <<>>
    => /\ file.rows = <<HeaderRow(ColumnNames)>> \o BatchRows(calls)
       /\ \A i \in 1..Len(calls) :
             calls[i].page = 1 + Cardinality({j \in 1..(i - 1) : calls[j].run = calls[i].run})

\* C7 (as claimed): extraction is aborted only by a missing details container
\* or a missing title; without them the record is returned with all thirteen
\* fields.
C7_AsClaimed ==
    pc = "Extracted"
    => /\ (error # NoError) <=> ExtractionFails(book_soup)
       /\ (error = NoError => Keys(book_data) = ColumnNames)

RECURSIVE SplitCommaSpace(_)
\* s.split(', ')
SplitCommaSpace(s) ==
    IF \E i \in 1..(Len(s) - 1) : s[i] = "," /\ s[i + 1] = " "
    THEN LET i == CHOOSE a \in 1..(Len(s) - 1) :
                      /\ s[a] = "," /\ s[a + 1] = " "
                      /\ \A b \in 1..(a - 1) : ~(s[b] = "," /\ s[b + 1] = " ")
         IN  <<SubSeq(s, 1, i - 1)>> \o SplitCommaSpace(SubSeq(s, i + 2, Len(s)))
    ELSE <<s>>

IsRetailerLink(href) == Contains(href, LIBRERIA)

\* the retailer links of the endorsement block, in document order
RetailerLinks(soup) ==
    IF IsNoNode(soup.consigliato) THEN <<>>
    ELSE SelectSeq(soup.consigliato.anchors, IsRetailerLink)

\* C8: in every record, recommendations is null iff bookstores is null; both
\* are null when the endorsement block is absent or has no retailer link;
\* otherwise recommendations is the number of identifiers joined in bookstores,
\* which are the links' path suffixes in document order, duplicates kept.
C8_CoNull ==
    (pc = "Extracted" /\ error = NoError)
    => LET rec == Get(book_data, "recommendations")
           bs == Get(book_data, "bookstores")
           links == RetailerLinks(book_soup)
       IN  /\ IsNone(rec) <=> IsNone(bs)
           /\ links = <<>> => (IsNone(rec) /\ IsNone(bs))
           /\ links # <<>>
              => /\ rec = PyInt(Len(links))
                 /\ IsStr(bs)
                 /\ SplitCommaSpace(bs.str)
                    = [i \in 1..Len(links) |-> SubSeq(links[i], Len(LIBRERIA) + 1, Len(links[i]))]

\* a record of a page whose block names the same retailer twice
C8_Witness ==
    /\ pc = "Extracted"
    /\ error = NoError
    /\ book_soup.consigliato = [anchors |-> <<HrefLibreriaA, HrefLibreriaA>>]
    /\ Get(book_data, "recommendations") = PyInt(2)
    /\ Get(book_data, "bookstores") = PyStr(<<"a", ",", " ", "a">>)

\* C9 (as claimed): write_csv writes the header row before the first data row
\* whenever the destination does not exist or exists without content, and only
\* appends the data rows when it exists with content.
C9_AsClaimed ==
    [][(AtWrite /\ books_in_page # <<>>)
       => file'.rows =
             file.rows
             \o (IF file.rows = <<>> THEN <<HeaderRow(ColumnNames)>> ELSE <<>>)
             \o BatchRows(<<[data |-> books_in_page]>>)]_vars

\* C9 (amended): write_csv writes the header row before the first data row
\* only when the destination does not exist at the call; when it exists, with
\* content or empty, it appends the data rows without a header.
C9_HeaderIffAbsent ==
    [][(AtWrite /\ books_in_page # <<>>)
       => /\ file'.exists
          /\ file'.rows =
                file.rows
                \o (IF ~file.exists THEN <<HeaderRow(ColumnNames)>> ELSE <<>>)
                \o BatchRows(<<[data |-> books_in_page]>>)]_vars

\* a batch was written to a destination that existed and was empty
C9_Witness ==
    /\ Len(calls) = 2
    /\ calls[1].data = <<>>
    /\ calls[2].data # <<>>
    /\ file.exists
    /\ file.rows = BatchRows(calls)

\* C10 (as claimed): a book header without a book anchor is skipped; it never
\* ends the page or the run.
C10_AsClaimed ==
    ~(/\ pc = "Aborted"
      /\ idx \in 1..Len(book_headers)
      /\ IsNoNode(book_headers[idx]))

====
